---- MODULE Spec2Model ----
(***************************************************************************)
(* Slicer25 (src/Slicer25.js): a surface of xsize by ysize pixels is cut   *)
(* into 25 slices (5 rows of 5, row-major, 1-based) and 19 named metazones *)
(* are derived from them; whichSlice and is query the two tables.          *)
(*                                                                         *)
(* Numbers.  Pixel bounds are integers.  A query coordinate is a JS number *)
(* and need not be whole: it is carried as an integer count of 1/Res       *)
(* pixels, so the coordinate 2.5 is 2.5*Res.  A percentage of a dimension  *)
(* is carried in hundredths of a pixel.  Math.round is round-half-up on    *)
(* both.  The literals lit.num.zero, .one, .five and .onehundred of the    *)
(* source are written 0, 1, 5 and 100.                                     *)
(***************************************************************************)
EXTENDS Integers, Sequences, FiniteSets

VARIABLES xsize, ysize, slices, meta, call, ret

vars == <<xsize, ysize, slices, meta, call, ret>>

(* ---- bounds of the model ---------------------------------------------- *)
\* resolution of the query coordinates: they are multiples of 1/Res pixel
Res == 4
\* the default specification builds every surface of 1..MaxDim by 1..MaxDim
MaxDim == 8
\* SpecMid builds the surfaces around 25 pixels, where the 2% line appears
MaxMid == 26
\* SpecValid builds surfaces of 100..MaxValid pixels
MaxValid == 117
\* SpecHundreds builds surfaces of 100, 200, .. 100*MaxHundreds pixels
MaxHundreds == 2

(* ---- JS values --------------------------------------------------------- *)
\* variants of the rounding: Math.ceil and Math.floor
MathRoundCeil(num, den) == (num + den - 1) \div den

MathRoundFloor(num, den) == num \div den

\* Math.round of num/den: floor(num/den + 1/2), ties towards +Infinity
MathRound(num, den) == (2 * num + den) \div (2 * den)

Null == [null |-> TRUE, v |-> 0]

Num(n) == [null |-> FALSE, v |-> n]

\* ToNumber(null) is 0 in a relational comparison
ToNumber(n) == IF n.null THEN 0 ELSE n.v

Number(n) == [kind |-> "number", val |-> n]

Boolean(b) == [kind |-> "boolean", val |-> b]

Undefined == [kind |-> "undefined", val |-> 0]

TypeError == [kind |-> "TypeError", val |-> 0]

(* ---- sliceScreen ------------------------------------------------------- *)
p == [b |-> 15, z |-> 34, m |-> 2]

sizes ==
  << [x |-> p.b, y |-> p.b], [x |-> p.z, y |-> p.b], [x |-> p.m, y |-> p.b], [x |-> p.z, y |-> p.b], [x |-> p.b, y |-> p.b],
     [x |-> p.b, y |-> p.z], [x |-> p.z, y |-> p.z], [x |-> p.m, y |-> p.z], [x |-> p.z, y |-> p.z], [x |-> p.b, y |-> p.z],
     [x |-> p.b, y |-> p.m], [x |-> p.z, y |-> p.m], [x |-> p.m, y |-> p.m], [x |-> p.z, y |-> p.m], [x |-> p.b, y |-> p.m],
     [x |-> p.b, y |-> p.z], [x |-> p.z, y |-> p.z], [x |-> p.m, y |-> p.z], [x |-> p.z, y |-> p.z], [x |-> p.b, y |-> p.z],
     [x |-> p.b, y |-> p.b], [x |-> p.z, y |-> p.b], [x |-> p.m, y |-> p.b], [x |-> p.z, y |-> p.b], [x |-> p.b, y |-> p.b] >>

\* dim * (pct/100), in hundredths of a pixel.  The double the source computes
\* rounds, under Math.round, to the same integer as this exact value.
getPercentOfScreenAsPixels(pct, whichDim) ==
  LET dim == IF whichDim = "x" THEN xsize ELSE ysize
  IN  dim * pct

\* variant: the pixel extents truncated instead of rounded
getScreenRangeFromXYPercent_floor(xpct, ypct, xoffset, yoffset) ==
  LET xpx == MathRoundFloor(getPercentOfScreenAsPixels(xpct, "x"), 100)
      ypx == MathRoundFloor(getPercentOfScreenAsPixels(ypct, "y"), 100)
  IN  [xstart |-> xoffset, xstop |-> xoffset + xpx - 1,
       ystart |-> yoffset, ystop |-> yoffset + ypx - 1]

\* variant: xstop and ystop one past the cell (the "- 1" forgotten)
getScreenRangeFromXYPercent_exclusive(xpct, ypct, xoffset, yoffset) ==
  LET xpx == MathRound(getPercentOfScreenAsPixels(xpct, "x"), 100)
      ypx == MathRound(getPercentOfScreenAsPixels(ypct, "y"), 100)
  IN  [xstart |-> xoffset, xstop |-> xoffset + xpx,
       ystart |-> yoffset, ystop |-> yoffset + ypx]

getScreenRangeFromXYPercent(xpct, ypct, xoffset, yoffset) ==
  LET xpx == MathRound(getPercentOfScreenAsPixels(xpct, "x"), 100)
      ypx == MathRound(getPercentOfScreenAsPixels(ypct, "y"), 100)
  IN  [xstart |-> xoffset, xstop |-> xoffset + xpx - 1,
       ystart |-> yoffset, ystop |-> yoffset + ypx - 1]

\* variant: the next cell starts on the last column of this one
nextOffsets_noGap(i, cell, yoffset) ==
  IF i % 5 = 0
  THEN [xoffset |-> 0, yoffset |-> cell.ystop + 1]
  ELSE [xoffset |-> cell.xstop, yoffset |-> yoffset]

\* "prep offsets for next cell": the cursor after cell i
nextOffsets(i, cell, yoffset) ==
  IF i % 5 = 0
  THEN [xoffset |-> 0, yoffset |-> cell.ystop + 1]
  ELSE [xoffset |-> cell.xstop + 1, yoffset |-> yoffset]

\* if (ret[i].ystop == this.ysize) ret[i].ystop--
clampYstop(cell) ==
  IF cell.ystop = ysize THEN [cell EXCEPT !.ystop = cell.ystop - 1] ELSE cell

RECURSIVE sliceLoop(_, _, _, _)
sliceLoop(i, acc, xoffset, yoffset) ==
  IF i < Len(sizes) + 1
  THEN LET cell == getScreenRangeFromXYPercent(sizes[i].x, sizes[i].y, xoffset, yoffset)
           nxt  == nextOffsets(i, cell, yoffset)
       IN  sliceLoop(i + 1, Append(acc, clampYstop(cell)), nxt.xoffset, nxt.yoffset)
  ELSE acc

\* the 1-based array ret[1..25] (ret[0] = null is not represented)
sliceScreen == sliceLoop(1, <<>>, 0, 0)

(* ---- buildMeta --------------------------------------------------------- *)
RECURSIVE mergeLoop(_, _, _)
mergeLoop(ranges, i, acc) ==
  IF i <= Len(ranges)
  THEN LET r == ranges[i]
       IN  mergeLoop(ranges, i + 1,
             [minX |-> IF r.xstart < ToNumber(acc.minX) \/ acc.minX.null THEN Num(r.xstart) ELSE acc.minX,
              maxX |-> IF r.xstop > ToNumber(acc.maxX) \/ acc.maxX.null THEN Num(r.xstop) ELSE acc.maxX,
              minY |-> IF r.ystart < ToNumber(acc.minY) \/ acc.minY.null THEN Num(r.ystart) ELSE acc.minY,
              maxY |-> IF r.ystop > ToNumber(acc.maxY) \/ acc.maxY.null THEN Num(r.ystop) ELSE acc.maxY])
  ELSE acc

getMergedRange(ranges) ==
  LET m == mergeLoop(ranges, 1, [minX |-> Null, minY |-> Null, maxX |-> Null, maxY |-> Null])
  IN  [xstart |-> m.minX.v, ystart |-> m.minY.v, xstop |-> m.maxX.v, ystop |-> m.maxY.v]

\* a metazone entry is either a Range object or an Array holding one Range
RangeObject(r) == [kind |-> "Range", val |-> <<r>>]

ArrayOf(r) == [kind |-> "Array", val |-> <<r>>]

\* variant: the four large metazones reach over the middle column and row
buildMeta_glossary ==
  LET s == slices
  IN  [left      |-> RangeObject(getMergedRange(<<s[1], s[2], s[3], s[6], s[7], s[8], s[11], s[12], s[13], s[16], s[17], s[18], s[21], s[22], s[23]>>)),
       right     |-> RangeObject(getMergedRange(<<s[3], s[4], s[5], s[8], s[9], s[10], s[13], s[14], s[15], s[18], s[19], s[20], s[23], s[24], s[25]>>)),
       top       |-> RangeObject(getMergedRange(<<s[1], s[2], s[3], s[4], s[5], s[6], s[7], s[8], s[9], s[10], s[11], s[12], s[13], s[14], s[15]>>)),
       bottom    |-> RangeObject(getMergedRange(<<s[11], s[12], s[13], s[14], s[15], s[16], s[17], s[18], s[19], s[20], s[21], s[22], s[23], s[24], s[25]>>)),
       l_border  |-> RangeObject(getMergedRange(<<s[1], s[6], s[11], s[16], s[21]>>)),
       r_border  |-> RangeObject(getMergedRange(<<s[5], s[10], s[15], s[20], s[25]>>)),
       t_border  |-> RangeObject(getMergedRange(<<s[1], s[2], s[3], s[4], s[5]>>)),
       b_border  |-> RangeObject(getMergedRange(<<s[21], s[22], s[23], s[24], s[25]>>)),
       lt_corner |-> ArrayOf(s[1]),
       rt_corner |-> ArrayOf(s[5]),
       lb_corner |-> ArrayOf(s[21]),
       rb_corner |-> ArrayOf(s[25]),
       lt_zone   |-> ArrayOf(s[7]),
       rt_zone   |-> ArrayOf(s[9]),
       lb_zone   |-> ArrayOf(s[17]),
       rb_zone   |-> ArrayOf(s[19]),
       center    |-> ArrayOf(s[13]),
       h_mid     |-> RangeObject(getMergedRange(<<s[15], s[16], s[17], s[18], s[19], s[20]>>)),
       v_mid     |-> RangeObject(getMergedRange(<<s[3], s[8], s[13], s[18], s[23]>>))]

buildMeta ==
  LET s == slices
  IN  [left      |-> RangeObject(getMergedRange(<<s[1], s[2], s[6], s[7], s[11], s[12], s[16], s[17], s[21], s[22]>>)),
       right     |-> RangeObject(getMergedRange(<<s[4], s[5], s[9], s[10], s[14], s[15], s[19], s[20], s[24], s[25]>>)),
       top       |-> RangeObject(getMergedRange(<<s[1], s[2], s[3], s[4], s[5], s[6], s[7], s[8], s[9], s[10]>>)),
       bottom    |-> RangeObject(getMergedRange(<<s[16], s[17], s[18], s[19], s[20], s[21], s[22], s[23], s[24], s[25]>>)),
       l_border  |-> RangeObject(getMergedRange(<<s[1], s[6], s[11], s[16], s[21]>>)),
       r_border  |-> RangeObject(getMergedRange(<<s[5], s[10], s[15], s[20], s[25]>>)),
       t_border  |-> RangeObject(getMergedRange(<<s[1], s[2], s[3], s[4], s[5]>>)),
       b_border  |-> RangeObject(getMergedRange(<<s[21], s[22], s[23], s[24], s[25]>>)),
       lt_corner |-> ArrayOf(s[1]),
       rt_corner |-> ArrayOf(s[5]),
       lb_corner |-> ArrayOf(s[21]),
       rb_corner |-> ArrayOf(s[25]),
       lt_zone   |-> ArrayOf(s[7]),
       rt_zone   |-> ArrayOf(s[9]),
       lb_zone   |-> ArrayOf(s[17]),
       rb_zone   |-> ArrayOf(s[19]),
       center    |-> ArrayOf(s[13]),
       h_mid     |-> RangeObject(getMergedRange(<<s[15], s[16], s[17], s[18], s[19], s[20]>>)),
       v_mid     |-> RangeObject(getMergedRange(<<s[3], s[8], s[13], s[18], s[23]>>))]

(* ---- whichSlice -------------------------------------------------------- *)
\* xoffset, yoffset: already rounded, whole pixels
RECURSIVE whichLoop(_, _, _, _)
whichLoop(i, last, xoffset, yoffset) ==
  IF i < last
  THEN IF /\ slices[i].xstart <= xoffset /\ slices[i].xstop >= xoffset
          /\ slices[i].ystart <= yoffset /\ slices[i].ystop >= yoffset
       THEN Number(i)
       ELSE whichLoop(i + 1, last, xoffset, yoffset)
  ELSE Undefined

\* variant: the scan stops before the last slice
whichSlice_shortLoop(xoffset, yoffset) ==
  whichLoop(1, Len(slices), MathRound(xoffset, Res), MathRound(yoffset, Res))

\* variant: the coordinates rounded up
whichSlice_ceil(xoffset, yoffset) ==
  whichLoop(1, Len(slices) + 1, MathRoundCeil(xoffset, Res), MathRoundCeil(yoffset, Res))

\* this.slices.length is Len(slices) + 1: the array has the unused element 0
whichSlice(xoffset, yoffset) ==
  whichLoop(1, Len(slices) + 1, MathRound(xoffset, Res), MathRound(yoffset, Res))

(* ---- is ---------------------------------------------------------------- *)
\* this.meta is a plain object: a key it does not own is looked up on
\* Object.prototype, whose members have no xstart, xstop, ystart or ystop
ObjectPrototype ==
  {"constructor", "hasOwnProperty", "isPrototypeOf", "propertyIsEnumerable",
   "toLocaleString", "toString", "valueOf", "__proto__",
   "__defineGetter__", "__defineSetter__", "__lookupGetter__", "__lookupSetter__"}

\* this.meta[metaName]
metaLookup(metaName) ==
  IF metaName \in DOMAIN meta THEN meta[metaName]
  ELSE IF metaName \in ObjectPrototype THEN [kind |-> "Inherited", val |-> <<>>]
  ELSE [kind |-> "undefined", val |-> <<>>]

\* variant: an unknown name is answered false
is_lenient(metaName, x, y) ==
  LET r == metaLookup(metaName)
  IN  IF r.kind = "Range"
      THEN Boolean(/\ x >= Res * r.val[1].xstart /\ x <= Res * r.val[1].xstop
                   /\ y >= Res * r.val[1].ystart /\ y <= Res * r.val[1].ystop)
      ELSE Boolean(FALSE)

\* x, y in 1/Res pixels, compared unrounded.  Reading a property of
\* undefined throws; a property that an Array or a prototype member does not
\* have reads as undefined, and every comparison with undefined is false.
is(metaName, x, y) ==
  LET r == metaLookup(metaName)
  IN  IF r.kind = "undefined" THEN TypeError
      ELSE IF r.kind = "Range"
      THEN Boolean(/\ x >= Res * r.val[1].xstart /\ x <= Res * r.val[1].xstop
                   /\ y >= Res * r.val[1].ystart /\ y <= Res * r.val[1].ystop)
      ELSE Boolean(FALSE)

(* ---- the instance and its callers -------------------------------------- *)
NoCall == [op |-> "none", name |-> "", x |-> 0, y |-> 0]

NoRet == [kind |-> "none", val |-> 0]

\* new Slicer25({width: w, height: h}) for some <<w, h>> of dims
init(dims) ==
  /\ \E d \in dims : xsize = d[1] /\ ysize = d[2]
  /\ slices = sliceScreen
  /\ meta = buildMeta
  /\ call = NoCall
  /\ ret = NoRet

\* a caller evaluates whichSlice(x, y) with x in xs and y in ys
CallWhichSlice(xs, ys) ==
  /\ call.op = "none"
  /\ \E x \in xs, y \in ys :
        /\ call' = [op |-> "whichSlice", name |-> "", x |-> x, y |-> y]
        /\ ret' = whichSlice(x, y)
  /\ UNCHANGED <<xsize, ysize, slices, meta>>

\* a caller evaluates is(name, x, y)
CallIs(names, xs, ys) ==
  /\ call.op = "none"
  /\ \E n \in names, x \in xs, y \in ys :
        /\ call' = [op |-> "is", name |-> n, x |-> x, y |-> y]
        /\ ret' = is(n, x, y)
  /\ UNCHANGED <<xsize, ysize, slices, meta>>

\* the caller has consumed the result
Return ==
  /\ call.op # "none"
  /\ call' = NoCall
  /\ ret' = NoRet
  /\ UNCHANGED <<xsize, ysize, slices, meta>>

(* ---- inputs ------------------------------------------------------------ *)
Vocabulary ==
  {"left", "right", "bottom", "top", "l_border", "r_border", "b_border", "t_border",
   "lb_corner", "rb_corner", "lt_corner", "rt_corner",
   "lb_zone", "rb_zone", "lt_zone", "rt_zone", "center", "h_mid", "v_mid"}

Names == Vocabulary \cup {"bogus_zone", "toString"}

\* whole-pixel coordinates -1 .. d, one pixel beyond the surface on each side
Pixels(d) == {Res * v : v \in -1 .. d}

\* every coordinate in steps of 1/Res from -1 to d
Fine(d) == (0 - Res) .. (Res * d)

\* for a large surface: the pixels just before and at every multiple of 10
Sampled(d) == {Res * v : v \in {u \in -1 .. d : u % 10 \in {0, 9}}}

\* surfaces of lo..hi pixels: the squares and those with one side of lo
Surfaces(lo, hi) ==
  {d \in (lo .. hi) \X (lo .. hi) : d[1] = d[2] \/ d[1] = lo \/ d[2] = lo}

(* ---- specifications ---------------------------------------------------- *)
Init == init((1 .. MaxDim) \X (1 .. MaxDim))

Next ==
  \/ CallWhichSlice(Fine(xsize), Fine(ysize))
  \/ CallIs(Names, Pixels(xsize), Pixels(ysize))
  \/ Return

Spec == Init /\ [][Next]_vars

InitMid == init((MaxMid - 3 .. MaxMid) \X (MaxMid - 3 .. MaxMid))

NextMid ==
  \/ CallWhichSlice(Pixels(xsize), Pixels(ysize))
  \/ CallIs(Names, Pixels(xsize), Pixels(ysize))
  \/ Return

SpecMid == InitMid /\ [][NextMid]_vars

InitValid == init(Surfaces(100, MaxValid))

NextValid ==
  \/ CallWhichSlice(Pixels(xsize), Pixels(ysize))
  \/ Return

SpecValid == InitValid /\ [][NextValid]_vars

InitHundreds ==
  init({<<100 * j, 100 * k>> : j, k \in 1 .. MaxHundreds} \cup {<<1000, 1000>>})

NextHundreds ==
  \/ CallWhichSlice(IF xsize = 1000 THEN Sampled(xsize) ELSE Pixels(xsize),
                    IF ysize = 1000 THEN Sampled(ysize) ELSE Pixels(ysize))
  \/ Return

SpecHundreds == InitHundreds /\ [][NextHundreds]_vars

(* ---- vocabulary of the properties --------------------------------------- *)
Min(S) == CHOOSE a \in S : \A b \in S : a <= b

Max(S) == CHOOSE a \in S : \A b \in S : a >= b

IsWhole(q) == q % Res = 0

\* the integer n with n - 1/2 <= q/Res < n + 1/2
Nearest(q) ==
  CHOOSE n \in -2 .. (xsize + ysize + 2) :
    2 * Res * n - Res <= 2 * q /\ 2 * q < 2 * Res * n + Res

Contains(r, x, y) == r.xstart <= x /\ x <= r.xstop /\ r.ystart <= y /\ y <= r.ystop

\* the slices that contain the pixel (x, y)
SlicesAt(x, y) == {i \in 1 .. 25 : Contains(slices[i], x, y)}

Overlap(a, b) ==
  /\ Max({a.xstart, b.xstart}) <= Min({a.xstop, b.xstop})
  /\ Max({a.ystart, b.ystart}) <= Min({a.ystop, b.ystop})

\* bounding box of the slices whose indices are in S
Bbox(S) ==
  [xstart |-> Min({slices[i].xstart : i \in S}), xstop |-> Max({slices[i].xstop : i \in S}),
   ystart |-> Min({slices[i].ystart : i \in S}), ystop |-> Max({slices[i].ystop : i \in S})]

Col(c) == {i \in 1 .. 25 : ((i - 1) % 5) + 1 = c}

Row(r) == {i \in 1 .. 25 : ((i - 1) \div 5) + 1 = r}

Found == ret.kind = "number" /\ ret.val \in 1 .. 25

\* the call in progress is op on a whole pixel
WholeCall(op) == call.op = op /\ IsWhole(call.x) /\ IsWhole(call.y)

CallPx == call.x \div Res

CallPy == call.y \div Res

C2_NonOverlapping ==
  /\ \A i, j \in 1 .. 25 : i < j => ~Overlap(slices[i], slices[j])
  /\ (call.op = "whichSlice" /\ ret.kind = "number")
       => SlicesAt(Nearest(call.x), Nearest(call.y)) = {ret.val}

C2_Witness ==
  /\ call.op = "whichSlice" /\ Found
  /\ slices[ret.val].xstart < slices[ret.val].xstop
  /\ Nearest(call.x) = slices[ret.val].xstop

(* ---- C3 ---------------------------------------------------------------- *)
\* C3 as stated: the tiling never exceeds the surface: every slice and every
\* merged metazone range lies inside [0, width-1] x [0, height-1].
C3_WithinSurface ==
  /\ \A i \in 1 .. 25 :
        /\ 0 <= slices[i].xstart /\ slices[i].xstop <= xsize - 1
        /\ 0 <= slices[i].ystart /\ slices[i].ystop <= ysize - 1
  /\ \A n \in DOMAIN meta :
        /\ 0 <= meta[n].val[1].xstart /\ meta[n].val[1].xstop <= xsize - 1
        /\ 0 <= meta[n].val[1].ystart /\ meta[n].val[1].ystop <= ysize - 1

(* ---- C4 ---------------------------------------------------------------- *)
SingleSlice ==
  [center |-> 13, lt_corner |-> 1, rt_corner |-> 5, lb_corner |-> 21, rb_corner |-> 25]

\* C4 as stated: for a single-slice metazone n of slice k, is(n, x, y) on a
\* whole pixel is true exactly when whichSlice(x, y) is k, the entry being
\* that slice's Range itself.
C4_SingleSliceZones ==
  (WholeCall("is") /\ call.name \in DOMAIN SingleSlice)
  => /\ ret.kind = "boolean"
     /\ ret.val <=> (/\ SlicesAt(CallPx, CallPy) # {}
                     /\ Min(SlicesAt(CallPx, CallPy)) = SingleSlice[call.name])

(* ---- C5 ---------------------------------------------------------------- *)
\* C5 as stated: h_mid is the bounding box of slices 11..15 (the third row)
\* and v_mid that of the third column, so on a whole pixel that lies in some
\* slice, is('h_mid') is true exactly when that slice is one of 11..15.
C5_MidLines ==
  /\ meta.h_mid.val[1] = Bbox(Row(3))
  /\ meta.v_mid.val[1] = Bbox(Col(3))
  /\ (WholeCall("is") /\ call.name = "h_mid" /\ SlicesAt(CallPx, CallPy) # {})
       => /\ ret.kind = "boolean"
          /\ ret.val <=> (Min(SlicesAt(CallPx, CallPy)) \in Row(3))

(* ---- C6 ---------------------------------------------------------------- *)
\* C6 as stated: left, right, top and bottom are the bounding boxes of
\* columns 1-3, columns 3-5, rows 1-3 and rows 3-5, so a whole pixel of the
\* middle column is both left and right, one of the middle row both top and
\* bottom.
C6_LargeZonesIncludeMid ==
  /\ meta.left.val[1] = Bbox(Col(1) \cup Col(2) \cup Col(3))
  /\ meta.right.val[1] = Bbox(Col(3) \cup Col(4) \cup Col(5))
  /\ meta.top.val[1] = Bbox(Row(1) \cup Row(2) \cup Row(3))
  /\ meta.bottom.val[1] = Bbox(Row(3) \cup Row(4) \cup Row(5))
  /\ (WholeCall("is") /\ call.name \in {"left", "right"}
        /\ SlicesAt(CallPx, CallPy) \cap Col(3) # {})
       => (ret.kind = "boolean" /\ ret.val)
  /\ (WholeCall("is") /\ call.name \in {"top", "bottom"}
        /\ SlicesAt(CallPx, CallPy) \cap Row(3) # {})
       => (ret.kind = "boolean" /\ ret.val)

\* C6 amended: left, right, top and bottom are the bounding boxes of columns
\* 1-2, columns 4-5, rows 1-2 and rows 4-5 (the header's "left of v_mid",
\* "above h_mid"), so a whole pixel of the middle column is neither left nor
\* right, and one of the middle row neither top nor bottom.
C6_LargeZonesExcludeMid ==
  /\ meta.left = RangeObject(Bbox(Col(1) \cup Col(2)))
  /\ meta.right = RangeObject(Bbox(Col(4) \cup Col(5)))
  /\ meta.top = RangeObject(Bbox(Row(1) \cup Row(2)))
  /\ meta.bottom = RangeObject(Bbox(Row(4) \cup Row(5)))
  /\ (WholeCall("is") /\ call.name \in {"left", "right"}
        /\ SlicesAt(CallPx, CallPy) \cap Col(3) # {})
       => (ret.kind = "boolean" /\ ~ret.val)
  /\ (WholeCall("is") /\ call.name \in {"top", "bottom"}
        /\ SlicesAt(CallPx, CallPy) \cap Row(3) # {})
       => (ret.kind = "boolean" /\ ~ret.val)

\* is('left') asked of the exact centre
C6_Witness ==
  /\ WholeCall("is") /\ call.name = "left"
  /\ 13 \in SlicesAt(CallPx, CallPy)
  /\ ret.kind = "boolean" /\ ~ret.val

(* ---- C7 ---------------------------------------------------------------- *)
\* C7: whichSlice(x, y) returns the smallest index whose slice contains the
\* point rounded to the nearest integers, and undefined, not an error, when no
\* slice contains it.
C7_FirstSliceOfRoundedPoint ==
  call.op = "whichSlice"
  => LET m == SlicesAt(Nearest(call.x), Nearest(call.y))
     IN  IF m = {} THEN ret.kind = "undefined"
         ELSE ret.kind = "number" /\ ret.val = Min(m)

\* x is not whole and rounds down, y is not whole and rounds up
C7_Witness ==
  /\ call.op = "whichSlice" /\ Found
  /\ ~IsWhole(call.x) /\ Res * Nearest(call.x) < call.x
  /\ ~IsWhole(call.y) /\ Res * Nearest(call.y) > call.y

(* ---- C8 ---------------------------------------------------------------- *)
\* C8 as stated: is with a name outside the vocabulary ends in an error, and
\* with a name of the vocabulary returns a boolean.
C8_UnknownNameThrows ==
  call.op = "is"
  => IF call.name \in Vocabulary THEN ret.kind = "boolean" ELSE ret.kind = "TypeError"

\* C8 amended: is with a name that is neither in the vocabulary nor a member
\* inherited from Object.prototype ends in an error; with an inherited member
\* name (such as toString) it returns false; with a name of the vocabulary it
\* returns a boolean; in every case slices and meta are left unchanged.
C8_UnknownOwnNameThrows ==
  [][call'.op = "is"
     => /\ slices' = slices /\ meta' = meta
        /\ call'.name \in Vocabulary => ret'.kind = "boolean"
        /\ call'.name \in ObjectPrototype => (ret'.kind = "boolean" /\ ~ret'.val)
        /\ call'.name \notin (Vocabulary \cup ObjectPrototype) => ret'.kind = "TypeError"]_vars

C8_Witness ==
  call.op = "is" /\ call.name = "bogus_zone" /\ ret.kind = "TypeError"

(* ---- C9 ---------------------------------------------------------------- *)
\* first and last pixel of column (or row) k of a dimension d that is a
\* multiple of 100
Start(k, d) == <<0, (15 * d) \div 100, (49 * d) \div 100, (51 * d) \div 100, (85 * d) \div 100>>[k]

Stop(k, d) == IF k = 5 THEN d - 1 ELSE Start(k + 1, d) - 1

\* C9: when width and height are multiples of 100 the slices tile the
\* surface exactly: columns and rows break at 15%, 49%, 51% and 85%, every
\* whole pixel of the surface is in exactly one slice and is found, no slice
\* extends beyond it; for 1000x1000 slice 1 is {0,149,0,149}, slice 13 is
\* [490,509] x [490,509] and whichSlice(500,500) is 13.
C9_ExactTiling ==
  (xsize % 100 = 0 /\ ysize % 100 = 0)
  => /\ \A r, c \in 1 .. 5 :
           slices[5 * (r - 1) + c] =
             [xstart |-> Start(c, xsize), xstop |-> Stop(c, xsize),
              ystart |-> Start(r, ysize), ystop |-> Stop(r, ysize)]
     /\ (/\ WholeCall("whichSlice")
         /\ CallPx \in 0 .. xsize - 1 /\ CallPy \in 0 .. ysize - 1)
          => (Found /\ SlicesAt(CallPx, CallPy) = {ret.val})
     /\ (WholeCall("whichSlice") /\ ~(CallPx \in 0 .. xsize - 1 /\ CallPy \in 0 .. ysize - 1))
          => ret.kind = "undefined"
     /\ (xsize = 1000 /\ ysize = 1000)
          => /\ slices[1] = [xstart |-> 0, xstop |-> 149, ystart |-> 0, ystop |-> 149]
             /\ slices[13] = [xstart |-> 490, xstop |-> 509, ystart |-> 490, ystop |-> 509]
             /\ (WholeCall("whichSlice") /\ CallPx = 500 /\ CallPy = 500)
                  => (ret.kind = "number" /\ ret.val = 13)

C9_Witness ==
  /\ xsize = 1000 /\ ysize = 1000
  /\ WholeCall("whichSlice") /\ CallPx = 500 /\ CallPy = 500
  /\ ret.kind = "number" /\ ret.val = 13

(* ---- C10 --------------------------------------------------------------- *)
\* C10 as stated: for every positive width and height every slice is a
\* well-formed Range: xstart <= xstop and ystart <= ystop.
C10_WellFormed ==
  \A i \in 1 .. 25 :
    slices[i].xstart <= slices[i].xstop /\ slices[i].ystart <= slices[i].ystop

\* C10 amended: for every width >= 25 and height >= 25 every slice is a
\* well-formed Range, xstart <= xstop and ystart <= ystop, also after the
\* ystop decrement.
C10_WellFormedFrom25 ==
  (xsize >= 25 /\ ysize >= 25) => C10_WellFormed

\* the 2% line is one pixel wide and the last row has been decremented
C10_Witness ==
  /\ xsize = 25 /\ ysize = 26
  /\ slices[13].xstart = slices[13].xstop
  /\ slices[25].ystop = ysize - 1
  /\ slices[25].ystop - slices[25].ystart + 1 < MathRound(15 * ysize, 100)

====
